---------------------------- MODULE Spec2Model ----------------------------
(***************************************************************************)
(* Model of el/edit.py: the FileBuffer line buffer (get_text_view,         *)
(* insert_char_at, delete_char_at) and the TextEditor key loop.            *)
(*                                                                         *)
(* Text is a sequence of character codes (chr(key) is the code itself).    *)
(* os.linesep is the one-character separator "\n" of the POSIX build.      *)
(* The terminal surface (curses) and the file system are collaborators:    *)
(* painting and cursor positioning are taken to succeed, the file is the   *)
(* variable `file`.  An uncaught Python exception ends the process         *)
(* (pc = "crashed"); exit(0) ends it with pc = "exited".                   *)
(***************************************************************************)
EXTENDS Integers, Sequences, FiniteSets, TLC

(* ------------------------------ bounds --------------------------------- *)
\* longest content drawn for a direct FileBuffer call
MaxLen == 3
\* line / column arguments of direct FileBuffer calls range over -MaxArg..MaxArg
MaxArg == 3
\* getmaxyx gives a height in 2..MaxHeight and the width MaxWidth
MaxHeight == 3
MaxWidth == 2
\* longest backing file the session is started on
MaxFile == 2
\* the editor stops accepting inserting keys at this content length
MaxContent == 3

(* --------------------------- key codes --------------------------------- *)
KEY_BACKSPACE == 127
KEY_ESC == 27
KEY_ENTER == 10
KEY_DOWN == 258
KEY_UP == 259
KEY_LEFT == 260
KEY_RIGHT == 261
KEY_DC == 330
\* the characters 'a', 'b', ' ' and carriage return, and a key no rule matches (F1)
CHAR_A == 97
CHAR_B == 98
CHAR_SPACE == 32
CHAR_CR == 13
KEY_F1 == 265

\* os.linesep
linesep == 10

Min(a, b) == IF a < b THEN a ELSE b
Max(a, b) == IF a > b THEN a ELSE b

(* ----------------------- Python sequence semantics --------------------- *)
\* a slice bound i of a sequence of length n, as Python normalises it
SliceBound(i, n) == IF i < 0 THEN Max(i + n, 0) ELSE Min(i, n)

\* s[lo:hi]
PySlice(s, lo, hi) ==
    LET l == SliceBound(lo, Len(s))
        h == SliceBound(hi, Len(s))
    IN  IF l < h THEN SubSeq(s, l + 1, h) ELSE << >>

\* s[:hi]
PyTo(s, hi) == PySlice(s, 0, hi)

\* s[lo:]
PyFrom(s, lo) == PySlice(s, lo, Len(s))

\* s[i] raises IndexError
IndexError(i, n) == i >= n \/ i < -n

\* the 1-based position s[i] addresses when it does not raise
PyIndex(i, n) == IF i < 0 THEN i + n + 1 ELSE i + 1

\* curses.ascii.isprint / curses.ascii.isblank
isprint(c) == 32 <= c /\ c <= 126
isblank(c) == c \in {9, 32}

\* content.split(os.linesep)
RECURSIVE Split(_)
Split(s) ==
    IF \A i \in 1..Len(s) : s[i] # linesep
    THEN << s >>
    ELSE LET i == CHOOSE j \in 1..Len(s) :
                      s[j] = linesep /\ \A k \in 1..(j - 1) : s[k] # linesep
         IN  << SubSeq(s, 1, i - 1) >> \o Split(SubSeq(s, i + 1, Len(s)))

\* os.linesep.join(rows)
RECURSIVE Join(_)
Join(rows) ==
    IF Len(rows) = 0 THEN << >>
    ELSE IF Len(rows) = 1 THEN rows[1]
    ELSE rows[1] \o << linesep >> \o Join(Tail(rows))

\* ''.join(rows)
RECURSIVE Concat(_)
Concat(rows) ==
    IF Len(rows) = 0 THEN << >> ELSE rows[1] \o Concat(Tail(rows))

\* len(content.split(os.linesep))
RowCount(s) == Len(Split(s))

(* ------------------------------ FileBuffer ----------------------------- *)
\* [row[start_column:end_column] for row in rows], rejoined
TrimRows(rows, start_column, end_column) ==
    Join([i \in 1..Len(rows) |-> PySlice(rows[i], start_column, end_column)])

\* a view that takes end_line and end_column as the last line and column shown
get_text_view_inclusive(c, start_line, end_line, start_column, end_column) ==
    TrimRows(PySlice(Split(c), start_line, end_line + 1),
             start_column, end_column + 1)

get_text_view(c, start_line, end_line, start_column, end_column) ==
    TrimRows(PySlice(Split(c), start_line, end_line), start_column, end_column)

\* rows with rows[i] replaced by row, rejoined: the outcome of a successful insert
Stored(rows, i, row) ==
    [fault |-> FALSE, content |-> Join([rows EXCEPT ![i] = row])]

\* rows[line] = rows[line][:column] + char + rows[line][tail:], then the join
SpliceInRows(c, rows, char, line, column, tail) ==
    IF IndexError(line, Len(rows))
    THEN [fault |-> TRUE, content |-> c]
    ELSE Stored(rows, PyIndex(line, Len(rows)),
                PyTo(rows[PyIndex(line, Len(rows))], column) \o << char >>
                    \o PyFrom(rows[PyIndex(line, Len(rows))], tail))

\* insert that overwrites the character at column instead of shifting it
insert_char_at_overwrite(c, char, line, column) ==
    SpliceInRows(c, Split(c), char, line, column, column + 1)

\* insert that counts columns from one
insert_char_at_one_based(c, char, line, column) ==
    SpliceInRows(c, Split(c), char, line, column - 1, column - 1)

\* the result of insert_char_at: the IndexError of rows[line], or the new content
insert_char_at(c, char, line, column) ==
    SpliceInRows(c, Split(c), char, line, column, column)

\* [x + os.linesep for x in rows]
RECURSIVE WithSeparators(_)
WithSeparators(rows) ==
    IF Len(rows) = 0 THEN << >>
    ELSE << rows[1] \o << linesep >> >> \o WithSeparators(Tail(rows))

\* if rows[-1] == os.linesep: rows = rows[:-1]
DropEmptyLast(rows) ==
    IF rows[Len(rows)] = << linesep >> THEN PyTo(rows, -1) ELSE rows

\* the removal without the column == -1 branch
DeleteInRows_no_sentinel(rows, line, column) ==
    IF 0 <= line /\ line <= Len(rows) - 1
    THEN Concat([rows EXCEPT ![line + 1] =
                    PyTo(@, column) \o PyFrom(@, column + 1)])
    ELSE Concat(rows)

\* the guarded removal in rows[line], then ''.join(rows)
DeleteInRows(rows, line, column) ==
    IF 0 <= line /\ line <= Len(rows) - 1
    THEN Concat([rows EXCEPT ![line + 1] =
                    IF column = -1
                    THEN PyTo(@, column)
                    ELSE PyTo(@, column) \o PyFrom(@, column + 1)])
    ELSE Concat(rows)

delete_char_at(c, line, column) ==
    DeleteInRows(DropEmptyLast(WithSeparators(Split(c))), line, column)

(* ------------------------------- state --------------------------------- *)
VARIABLES
    content,            \* FileBuffer.content
    term_height,        \* TextEditor.term_height
    term_width,         \* TextEditor.term_width
    text_line_start,    \* TextEditor.text_line_start
    text_column_start,  \* TextEditor.text_column_start
    x, y,               \* the cursor held by TextEditor.edit
    message,            \* the status message of the last dispatch
    key,                \* the last key read by getch, NoKey before the first
    screen,             \* the text last painted by show_buffer_content
    file,               \* the backing file
    pc,                 \* "await", "crashed", "exited", or "buffer" for a bare FileBuffer
    call                \* the last FileBuffer call and its outcome

vars == << content, term_height, term_width, text_line_start,
           text_column_start, x, y, message, key, screen, file, pc, call >>

editorVars == << term_height, term_width, text_line_start,
                 text_column_start, x, y, message, key, screen, file >>

NoKey == -1
NoMessage == [unknown |-> FALSE, key |-> NoKey]
\* an unknown-key message that leaves out the key code
UnknownKey_nocode(k) == [unknown |-> TRUE, key |-> NoKey]

UnknownKey(k) == [unknown |-> TRUE, key |-> k]

NoFile == [exists |-> FALSE, data |-> << >>]
FileOf(data) == [exists |-> TRUE, data |-> data]

NoCall == [op |-> "none", char |-> 0, line |-> 0, end_line |-> 0,
           column |-> 0, end_column |-> 0, before |-> << >>,
           fault |-> FALSE, ret |-> << >>]
InsertCall(c, char, line, column, fault) ==
    [NoCall EXCEPT !.op = "insert_char_at", !.char = char, !.line = line,
                   !.column = column, !.before = c, !.fault = fault]
DeleteCall(c, line, column) ==
    [NoCall EXCEPT !.op = "delete_char_at", !.line = line,
                   !.column = column, !.before = c]
ViewCall(c, sl, el, sc, ec, ret) ==
    [NoCall EXCEPT !.op = "get_text_view", !.line = sl, !.end_line = el,
                   !.column = sc, !.end_column = ec, !.before = c, !.ret = ret]

\* all texts over alphabet A of length at most n
RECURSIVE Texts(_, _)
Texts(A, n) ==
    IF n = 0 THEN {<< >>}
    ELSE LET shorter == Texts(A, n - 1)
         IN  shorter \cup {Append(t, a) : t \in shorter, a \in A}

(* ------------------------------ file I/O ------------------------------- *)
\* file.read() of a file opened in text mode: "\r\n" and "\r" read as "\n"
RECURSIVE read(_)
read(data) ==
    IF Len(data) = 0 THEN << >>
    ELSE IF data[1] = CHAR_CR
         THEN IF Len(data) >= 2 /\ data[2] = linesep
              THEN << linesep >> \o read(SubSeq(data, 3, Len(data)))
              ELSE << linesep >> \o read(Tail(data))
         ELSE << data[1] >> \o read(Tail(data))

load_file_to_buffer(f) == IF f.exists THEN read(f.data) ELSE << >>

\* a save that writes the rows without their separators
save_buffer_to_file_rows(c) == FileOf(Concat(Split(c)))

save_buffer_to_file(c) == FileOf(c)

(* ------------------------------ TextEditor ----------------------------- *)
text_line_end == text_line_start + term_height - 1

text_column_end == text_line_start + term_width - 1

show_buffer_content(c, line_start) ==
    get_text_view(c, line_start, line_start + term_height - 1,
                  text_column_start, line_start + term_width - 1)

\* a scroll test that compares with <= instead of <
can_scroll_down_inclusive(cy) ==
    cy = term_height - 2 /\ text_line_end <= RowCount(content)

\* a scroll test that never looks at the row count
can_scroll_down_unbounded(cy) == cy = term_height - 2

can_scroll_down(cy) ==
    cy = term_height - 2 /\ text_line_end < RowCount(content)

\* a scroll test that does not look at text_line_start
can_scroll_up_unguarded(cy) == cy = 0

can_scroll_up(cy) == cy = 0 /\ text_line_start # 0

\* the outcome of one dispatch: cursor, message, viewport, content, the
\* FileBuffer call made, and how control leaves ("return", "raise", "exit")
Outcome(nx, ny, msg, ls, c, cl, how) ==
    [x |-> nx, y |-> ny, message |-> msg, text_line_start |-> ls,
     content |-> c, call |-> cl, how |-> how]

\* the outcome of an inserting key, given the result r of insert_char_at
InsertOutcome(r, char, line, column, nx, ny) ==
    IF r.fault
    THEN Outcome(x, y, NoMessage, text_line_start, content,
                 InsertCall(content, char, line, column, TRUE), "raise")
    ELSE Outcome(nx, ny, NoMessage, text_line_start, r.content,
                 InsertCall(content, char, line, column, FALSE), "return")

Inserted(char, nx, ny) ==
    InsertOutcome(insert_char_at(content, char, text_line_start + y,
                                 text_column_start + x),
                  char, text_line_start + y, text_column_start + x, nx, ny)

Deleted(line, column) ==
    Outcome(x, y, NoMessage, text_line_start,
            delete_char_at(content, line, column),
            DeleteCall(content, line, column), "return")

Moved(nx, ny, ls) == Outcome(nx, ny, NoMessage, ls, content, NoCall, "return")

handle_keyboard_input(k) ==
    IF k = KEY_LEFT /\ x > 0 THEN Moved(x - 1, y, text_line_start)
    ELSE IF k = KEY_RIGHT /\ x < term_width THEN Moved(x + 1, y, text_line_start)
    ELSE IF k = KEY_DOWN /\ y < term_height - 2 THEN Moved(x, y + 1, text_line_start)
    ELSE IF k = KEY_DOWN /\ can_scroll_down(y) THEN Moved(x, y, text_line_start + 1)
    ELSE IF k = KEY_UP /\ y > 0 THEN Moved(x, y - 1, text_line_start)
    ELSE IF k = KEY_UP /\ can_scroll_up(y) THEN Moved(x, y, text_line_start - 1)
    ELSE IF k = KEY_DC
         THEN Deleted(text_line_start + y, text_column_start + x)
    ELSE IF k = KEY_BACKSPACE
         THEN IF x = 0 /\ y > 0 THEN Deleted(text_line_start + y - 1, -1)
              ELSE IF x > 0 THEN Deleted(text_line_start + y, x - 1)
              ELSE Moved(x, y, text_line_start)
    ELSE IF isprint(k) \/ isblank(k) THEN Inserted(k, x + 1, y)
    ELSE IF k = KEY_ENTER THEN Inserted(linesep, 0, y + 1)
    ELSE IF k = KEY_ESC
         THEN Outcome(x, y, NoMessage, text_line_start, content, NoCall, "exit")
    ELSE Outcome(x, y, UnknownKey(k), text_line_start, content, NoCall, "return")

\* the loop of edit is blocked in getch
Waiting == pc = "await"

\* what follows the dispatch of key k with outcome r: repaint and save, or
\* the end of the process
Finish(k, r) ==
    /\ key' = k
    /\ call' = r.call
    /\ UNCHANGED << term_height, term_width, text_column_start >>
    /\ IF r.how = "return"
       THEN /\ x' = r.x
            /\ y' = r.y
            /\ message' = r.message
            /\ text_line_start' = r.text_line_start
            /\ content' = r.content
            /\ screen' = show_buffer_content(r.content, r.text_line_start)
            /\ file' = save_buffer_to_file(r.content)
            /\ pc' = "await"
       ELSE /\ pc' = IF r.how = "raise" THEN "crashed" ELSE "exited"
            /\ UNCHANGED << x, y, message, text_line_start, content,
                            screen, file >>

\* one iteration of the loop of edit: getch, dispatch, repaint, save
Iterate(k) == Finish(k, handle_keyboard_input(k))

PressLeft == Waiting /\ Iterate(KEY_LEFT)
PressRight == Waiting /\ Iterate(KEY_RIGHT)
PressDown == Waiting /\ Iterate(KEY_DOWN)
PressUp == Waiting /\ Iterate(KEY_UP)
PressDelete == Waiting /\ Iterate(KEY_DC)
PressBackspace == Waiting /\ Iterate(KEY_BACKSPACE)
PressChar ==
    /\ Waiting
    /\ Len(content) < MaxContent
    /\ \E k \in {CHAR_A, CHAR_SPACE} : Iterate(k)
PressEnter == Waiting /\ Len(content) < MaxContent /\ Iterate(KEY_ENTER)
PressEsc == Waiting /\ Iterate(KEY_ESC)
PressOther == Waiting /\ Iterate(KEY_F1)

\* the files the session may be started on
InitialFiles ==
    {NoFile} \cup {FileOf(t) : t \in Texts({CHAR_A, linesep, CHAR_CR}, MaxFile)}

\* the state after __init__ and the part of edit before the loop
Init ==
    /\ file \in InitialFiles
    /\ content = load_file_to_buffer(file)
    /\ term_height \in 2..MaxHeight
    /\ term_width = MaxWidth
    /\ text_line_start = 0
    /\ text_column_start = 0
    /\ x = 0
    /\ y = 0
    /\ message = NoMessage
    /\ key = NoKey
    /\ screen = show_buffer_content(content, 0)
    /\ pc = "await"
    /\ call = NoCall

Next ==
    \/ PressLeft
    \/ PressRight
    \/ PressDown
    \/ PressUp
    \/ PressDelete
    \/ PressBackspace
    \/ PressChar
    \/ PressEnter
    \/ PressEsc
    \/ PressOther

Spec == Init /\ [][Next]_vars

(* ------------------- FileBuffer called on its own ---------------------- *)
Args == (0 - MaxArg)..MaxArg
BufferChars == {CHAR_A, CHAR_B, linesep}

\* a FileBuffer whose content was assigned directly, no editor around it
InitBuffer ==
    /\ content \in Texts(BufferChars, MaxLen)
    /\ pc = "buffer"
    /\ call = NoCall
    /\ term_height = 0
    /\ term_width = 0
    /\ text_line_start = 0
    /\ text_column_start = 0
    /\ x = 0
    /\ y = 0
    /\ message = NoMessage
    /\ key = NoKey
    /\ screen = << >>
    /\ file = NoFile

CallGetTextView ==
    /\ pc = "buffer"
    /\ call = NoCall
    /\ \E sl \in Args, el \in Args, sc \in Args, ec \in Args :
        /\ call' = ViewCall(content, sl, el, sc, ec,
                            get_text_view(content, sl, el, sc, ec))
        /\ UNCHANGED << content, pc >>
        /\ UNCHANGED editorVars

CallInsertCharAt ==
    /\ pc = "buffer"
    /\ call = NoCall
    /\ \E char \in BufferChars, line \in Args, column \in Args :
        /\ LET r == insert_char_at(content, char, line, column)
           IN  /\ call' = InsertCall(content, char, line, column, r.fault)
               /\ content' = r.content
        /\ UNCHANGED pc
        /\ UNCHANGED editorVars

CallDeleteCharAt ==
    /\ pc = "buffer"
    /\ call = NoCall
    /\ \E line \in Args, column \in Args :
        /\ call' = DeleteCall(content, line, column)
        /\ content' = delete_char_at(content, line, column)
        /\ UNCHANGED pc
        /\ UNCHANGED editorVars

\* delete_char_at at the line and column of the insert_char_at just made
CallDeleteAtInsertSite ==
    /\ pc = "buffer"
    /\ call.op = "insert_char_at"
    /\ ~call.fault
    /\ call' = [call EXCEPT !.op = "insert_then_delete"]
    /\ content' = delete_char_at(content, call.line, call.column)
    /\ UNCHANGED pc
    /\ UNCHANGED editorVars

NextBuffer ==
    \/ CallGetTextView
    \/ CallInsertCharAt
    \/ CallDeleteCharAt
    \/ CallDeleteAtInsertSite

SpecBuffer == InitBuffer /\ [][NextBuffer]_vars

(* ------------------------ vocabulary of the claims --------------------- *)
\* rows of the content before the recorded call, and of the content now
RowsBefore == Split(call.before)
RowsNow == Split(content)

\* the recorded call addresses an existing row (0-based line)
LineExists == 0 <= call.line /\ call.line < Len(RowsBefore)

\* number of characters of text t that precede row `line` (0-based)
RECURSIVE RowOffset(_, _)
RowOffset(rows, line) ==
    IF line = 0 THEN 0
    ELSE Len(rows[line]) + 1 + RowOffset(rows, line - 1)

\* text t without its p-th character (1-based)
RemoveAt(t, p) == SubSeq(t, 1, p - 1) \o SubSeq(t, p + 1, Len(t))

\* text t with ch put after its first p characters
InsertAfter(t, p, ch) == SubSeq(t, 1, p) \o << ch >> \o SubSeq(t, p + 1, Len(t))

\* the elements of s at 0-based positions lo <= p < hi, clamped to s
Cut(s, lo, hi) ==
    LET l == Max(lo, 0)
        h == Min(hi, Len(s))
    IN  [i \in 1..Max(h - l, 0) |-> s[l + i]]

\* a bound counted from the end of a sequence of length n when negative
FromEnd(i, n) == IF i < 0 THEN i + n ELSE i

(* ------------------------------- C1 ------------------------------------ *)
\* C1: in every state reached by keypresses the cursor row satisfies
\* 0 <= y <= term_height - 2.
C1_CursorRowInViewport ==
    pc \in {"await", "crashed", "exited"} => (0 <= y /\ y <= term_height - 2)

(* ------------------------------- C2 ------------------------------------ *)
\* C2: whenever the editor dispatches an insert (printable, blank or Enter)
\* the absolute line text_line_start + y is an existing row, so no
\* keypress sequence raises the index fault.
C2_InsertLineExists ==
    (pc \in {"await", "crashed"} /\ call.op = "insert_char_at")
        => (LineExists /\ ~call.fault /\ pc # "crashed")

(* ------------------------------- C3 ------------------------------------ *)
\* C3: whenever the editor waits for a key after at least one keypress, the
\* backing file holds exactly the buffer content.
C3_FileEqualsBuffer ==
    (Waiting /\ key # NoKey) => (file.exists /\ file.data = content)

\* a key that changed the buffer has been processed and the editor waits again
C3_Witness ==
    /\ Waiting
    /\ call.op \in {"insert_char_at", "delete_char_at"}
    /\ content # call.before
    /\ Len(RowsNow) > 1
    /\ file = FileOf(content)

(* ------------------------------- C4 ------------------------------------ *)
\* C4: delete_char_at with line outside 0 <= line <= row_count - 1 leaves
\* the content exactly as it was, for every content and column.
C4_DeleteOutOfRangeIsNoOp ==
    (pc = "buffer" /\ call.op = "delete_char_at" /\ ~LineExists)
        => content = call.before

(* ------------------------------- C5 ------------------------------------ *)
\* C5: delete_char_at on an existing row at a column inside the row yields
\* the original content with exactly that one character removed.
C5_DeleteRemovesOneChar ==
    (/\ pc = "buffer"
     /\ call.op = "delete_char_at"
     /\ LineExists
     /\ 0 <= call.column
     /\ call.column < Len(RowsBefore[call.line + 1]))
        => /\ content = RemoveAt(call.before,
                           RowOffset(RowsBefore, call.line) + call.column + 1)
           /\ Len(content) = Len(call.before) - 1
           /\ Len(RowsNow) = Len(RowsBefore)

(* ------------------------------- C6 ------------------------------------ *)
\* C6: delete_char_at(line, -1) on a row that has a following row removes
\* exactly the separator ending that row: rows line and line+1 become one
\* row, the row count drops by one, no other character changes.
C6_DeleteMinusOneJoins ==
    (/\ pc = "buffer"
     /\ call.op = "delete_char_at"
     /\ call.column = -1
     /\ 0 <= call.line
     /\ call.line <= Len(RowsBefore) - 2)
        => /\ content = RemoveAt(call.before,
                           RowOffset(RowsBefore, call.line + 1))
           /\ Len(RowsNow) = Len(RowsBefore) - 1
           /\ RowsNow[call.line + 1] =
                  RowsBefore[call.line + 1] \o RowsBefore[call.line + 2]

C8_InsertIsLocal ==
    (/\ pc = "buffer"
     /\ call.op = "insert_char_at"
     /\ call.char # linesep
     /\ LineExists
     /\ 0 <= call.column
     /\ call.column <= Len(RowsBefore[call.line + 1]))
        => /\ ~call.fault
           /\ Len(RowsNow) = Len(RowsBefore)
           /\ \A i \in 1..Len(RowsBefore) :
                 RowsNow[i] =
                    IF i = call.line + 1
                    THEN InsertAfter(RowsBefore[i], call.column, call.char)
                    ELSE RowsBefore[i]

\* an insert in the middle of a row of a content of several rows
C8_Witness ==
    /\ pc = "buffer"
    /\ call.op = "insert_char_at"
    /\ call.char # linesep
    /\ ~call.fault
    /\ Len(RowsBefore) >= 2
    /\ call.line = 1
    /\ call.column = 1
    /\ Len(RowsBefore[2]) = 2
    /\ RowsBefore[2][1] # call.char
    /\ RowsBefore[2][2] # call.char

(* ------------------------------- C9 ------------------------------------ *)
\* C9 as stated: an insert at an existing row with column greater than the
\* row's length faults and leaves the content unchanged.
C9_InsertPastEndFaults ==
    (/\ pc = "buffer"
     /\ call.op = "insert_char_at"
     /\ LineExists
     /\ call.column > Len(RowsBefore[call.line + 1]))
        => (call.fault /\ content = call.before)

\* C9 amended: an insert at an existing row with column greater than the
\* row's length does not fault; it appends the character at the end of the
\* row, exactly as column == row length does.
C9_InsertPastEndAppends ==
    (/\ pc = "buffer"
     /\ call.op = "insert_char_at"
     /\ LineExists
     /\ call.column >= Len(RowsBefore[call.line + 1]))
        => /\ ~call.fault
           /\ content = InsertAfter(call.before,
                            RowOffset(RowsBefore, call.line)
                                + Len(RowsBefore[call.line + 1]),
                            call.char)

\* an insert two columns past the end of a non-empty row that is not the last
C9_Witness ==
    /\ pc = "buffer"
    /\ call.op = "insert_char_at"
    /\ call.line = 0
    /\ Len(RowsBefore) >= 2
    /\ Len(RowsBefore[1]) = 1
    /\ call.column = 3
    /\ ~call.fault
    /\ Len(content) = Len(call.before) + 1

(* ------------------------------- C10 ----------------------------------- *)
\* C10: insert_char_at faults for every line outside 0 <= line < row_count
\* and the content is then unchanged.
C10_InsertBadLineFaults ==
    (pc = "buffer" /\ call.op = "insert_char_at" /\ ~LineExists)
        => (call.fault /\ content = call.before)

(* ------------------------------- C11 ----------------------------------- *)
\* key k, read in the current state, matches no rule of the dispatch table:
\* a key without a rule, or an arrow key whose guards are all false
MatchesNoRule(k) ==
    \/ k = KEY_F1
    \/ k = KEY_LEFT /\ x = 0
    \/ k = KEY_RIGHT /\ x >= term_width
    \/ k = KEY_UP /\ y = 0 /\ text_line_start = 0
    \/ /\ k = KEY_DOWN
       /\ y >= term_height - 2
       /\ ~(y = term_height - 2
              /\ text_line_start + term_height - 1 < RowCount(content))

C12_ScrollBoundary ==
    [][(Waiting /\ key' = KEY_DOWN)
          => /\ (y = term_height - 2
                    /\ text_line_start + (term_height - 1) < RowCount(content))
                  => (text_line_start' = text_line_start + 1 /\ y' = y)
             /\ (y = term_height - 2
                    /\ ~(text_line_start + (term_height - 1) < RowCount(content)))
                  => (text_line_start' = text_line_start /\ y' = y)
             /\ ~(y' # y /\ text_line_start' # text_line_start)
             /\ (y >= term_height - 2 => y' <= y)
             /\ (y < term_height - 2
                  => (y' = y + 1 /\ text_line_start' = text_line_start))]_vars

\* a Down key scrolled a two-row terminal down to the last row of the content
C12_Witness ==
    /\ Waiting
    /\ key = KEY_DOWN
    /\ message = NoMessage
    /\ term_height = 2
    /\ y = 0
    /\ text_line_start >= 1
    /\ text_line_start + term_height - 1 = RowCount(content)

(* ------------------------------- C13 ----------------------------------- *)
\* C13: in every state the painted text is get_text_view(text_line_start,
\* text_line_start + term_height - 1, text_column_start,
\* text_column_start + term_width - 1).
C13_RenderedWindow ==
    Waiting =>
        screen = TrimRows(Cut(Split(content), text_line_start,
                              text_line_start + term_height - 1),
                          text_column_start,
                          text_column_start + term_width - 1)

(* ------------------------------- C14 ----------------------------------- *)
\* C14: inserting the separator at an existing row and a column within
\* 0..length adds exactly one row: row line becomes row[:column], row
\* line+1 becomes row[column:], the rows before are identical and the rows
\* after are the old rows shifted down by one.
C14_InsertSeparatorSplits ==
    (/\ pc = "buffer"
     /\ call.op = "insert_char_at"
     /\ call.char = linesep
     /\ LineExists
     /\ 0 <= call.column
     /\ call.column <= Len(RowsBefore[call.line + 1]))
        => /\ ~call.fault
           /\ Len(RowsNow) = Len(RowsBefore) + 1
           /\ \A i \in 1..Len(RowsNow) :
                 RowsNow[i] =
                    IF i <= call.line THEN RowsBefore[i]
                    ELSE IF i = call.line + 1
                         THEN SubSeq(RowsBefore[i], 1, call.column)
                    ELSE IF i = call.line + 2
                         THEN SubSeq(RowsBefore[i - 1], call.column + 1,
                                     Len(RowsBefore[i - 1]))
                    ELSE RowsBefore[i - 1]

\* a separator inserted inside a two-character row that has a row before it
C14_Witness ==
    /\ pc = "buffer"
    /\ call.op = "insert_char_at"
    /\ call.char = linesep
    /\ ~call.fault
    /\ call.line = 1
    /\ call.column = 1
    /\ Len(RowsBefore) = 2
    /\ Len(RowsBefore[2]) = 2
    /\ RowsBefore[2][1] # RowsBefore[2][2]
    /\ Len(RowsNow) = 3

(* ------------------------------- C15 ----------------------------------- *)
\* C15: once an existing file is loaded, an iteration for a key that
\* performs no buffer mutation (an arrow key, an unknown key, Backspace at
\* x == 0 and y == 0) leaves the backing file exactly as it was; so after
\* any sequence of such keys the file still holds the bytes that were loaded.
C15_RoundTripWithoutEdits ==
    [][(/\ Waiting
        /\ file.exists
        /\ key' \in {KEY_LEFT, KEY_RIGHT, KEY_UP, KEY_DOWN, KEY_F1,
                     KEY_BACKSPACE}
        /\ call'.op = "none"
        /\ pc' = "await")
          => file' = file]_vars

(* ------------------------------- C16 ----------------------------------- *)
\* C16: in every state reached by keypresses the cursor column and the
\* viewport origin are never negative, and text_column_start stays 0.
C16_OriginNeverNegative ==
    pc \in {"await", "crashed", "exited"}
        => (x >= 0 /\ text_line_start >= 0 /\ text_column_start = 0)

\* an Up key scrolled a two-row terminal back to the first line, cursor at
\* column 0
C16_Witness ==
    /\ Waiting
    /\ key = KEY_UP
    /\ message = NoMessage
    /\ term_height = 2
    /\ text_line_start = 0
    /\ x = 0
    /\ y = 0

(* ------------------------------- C17 ----------------------------------- *)
\* C17: on a row that has a following row, delete_char_at at the column
\* equal to the row's length gives the same content as delete_char_at at
\* column -1, and the next row is joined onto the row.
C17_DeleteAtEndJoins ==
    (/\ pc = "buffer"
     /\ call.op = "delete_char_at"
     /\ 0 <= call.line
     /\ call.line <= Len(RowsBefore) - 2
     /\ call.column = Len(RowsBefore[call.line + 1]))
        => /\ content = delete_char_at(call.before, call.line, -1)
           /\ RowsNow[call.line + 1] =
                  RowsBefore[call.line + 1] \o RowsBefore[call.line + 2]

\* a delete at the end of a non-empty first row joined a non-empty second row
C17_Witness ==
    /\ pc = "buffer"
    /\ call.op = "delete_char_at"
    /\ call.line = 0
    /\ call.column = 1
    /\ Len(RowsBefore) >= 2
    /\ Len(RowsBefore[1]) = 1
    /\ Len(RowsBefore[2]) = 1
    /\ Len(RowsNow[1]) = 2

(* ------------------------------- C18 ----------------------------------- *)
\* C18: in every state reached by keypresses the top visible line exists:
\* text_line_start < number of rows of content split on the separator.
C18_TopLineExists ==
    pc \in {"await", "crashed", "exited"} => text_line_start < RowCount(content)

\* after scrolling down, a delete has removed a row and the top visible
\* line is now the last row
C18_Witness ==
    /\ pc = "await"
    /\ call.op = "delete_char_at"
    /\ text_line_start >= 1
    /\ RowCount(content) < RowCount(call.before)
    /\ text_line_start = RowCount(content) - 1

(* ------------------------------- C19 ----------------------------------- *)
\* the recorded call is made on content that ends with the separator, at a
\* row other than the empty row after the final separator, at a column
\* from 0 to the length of that row
TerminatedSite ==
    /\ Len(call.before) > 0
    /\ call.before[Len(call.before)] = linesep
    /\ 0 <= call.line
    /\ call.line <= Len(RowsBefore) - 2
    /\ 0 <= call.column
    /\ call.column <= Len(RowsBefore[call.line + 1])

\* C19: on content that ends with the separator, for a row other than the
\* empty last row, a column 0 <= column <= length of the row and any
\* character, insert_char_at does not fault and delete_char_at at the same
\* line and column afterwards restores the content exactly.
C19_InsertThenDeleteRestores ==
    /\ (pc = "buffer" /\ call.op = "insert_char_at" /\ TerminatedSite)
           => ~call.fault
    /\ (pc = "buffer" /\ call.op = "insert_then_delete" /\ TerminatedSite)
           => content = call.before

\* a separator inserted inside a row and deleted again
C19_Witness ==
    /\ pc = "buffer"
    /\ call.op = "insert_then_delete"
    /\ TerminatedSite
    /\ call.char = linesep
    /\ call.column = 1
    /\ Len(RowsBefore[call.line + 1]) = 2
    /\ content = call.before

=============================================================================
